---- MODULE Spec2Model ----
(***************************************************************************)
(* A model of downplanet: the DownPlanet client (planetary.py) and its     *)
(* helpers (common.py).  The program is single threaded and synchronous,   *)
(* so every public call (constructor, search, download, download_all) is   *)
(* one atomic action.  The catalog, the signing service, the asset hosts   *)
(* and the local file system are the environment: what they answer is      *)
(* drawn with \E in the actions.                                           *)
(*                                                                         *)
(* Scope of the environment: an HTTP request always yields a response (a   *)
(* HEAD with or without content-length, a GET with a success or a          *)
(* non-success status); the logger runs at its default level INFO, so      *)
(* logger.debug records are not part of the log.                           *)
(***************************************************************************)
EXTENDS Integers, Sequences, FiniteSets, TLC

VARIABLES
    catalog,    \* "unset": the instance has no attribute 'catalog'; "open"
    search_df,  \* [is_none, index]: None, or the index (ids, in order) of the table
    dirs,       \* file system: the paths that are directories
    files,      \* file system: path of a regular file -> its size in bytes
    log,        \* records the logger emitted during the most recent call
    net,        \* requests sent (with the answer received) during the most recent call
    calls,      \* the download(idx) invocations a download_all made, in order
    written,    \* paths of the files the most recent call opened for writing
    pbar,       \* [made, total, n]: the progress bar of the item downloaded last
    raised,     \* "None", or the exception that left the most recent call
    call,       \* the most recent call: [op, idx, out_dir, path]
    arg,        \* argument of the function under study (function specifications)
    ret         \* its result

vars == <<catalog, search_df, dirs, files, log, net, calls, written, pbar,
          raised, call, arg, ret>>

None == "None"

-----------------------------------------------------------------------------
(* Bounds and program constants *)

\* longest coordinate list handed to create_geometry
MaxLen == 4
\* largest response body streamed by download_asset
MaxBody == 2100
\* iter_content(chunk_size=1024)
chunk_size == 1024
\* pbar.update(1024)
pbar_step == 1024

catalog_url == "https://planetarycomputer.microsoft.com/api/stac/v1"
s2_collection == "sentinel-2-l2a"

-----------------------------------------------------------------------------
(* The remote catalog: two items, their assets and the size of each blob *)

Ids == {"i1", "i2"}
UnknownId == "nope"

AssetKeys(id) == IF id = "i1" THEN <<"B01", "B02", "B03">> ELSE <<"B01">>

\* an asset: its key in item.assets and its href (path segments, query string)
Asset(id, key) ==
    [key |-> key, href |-> [path |-> <<"s2", id, key \o ".tif">>, query |-> ""]]

\* an item as the catalog returns it: unsigned, without size
Item(id) ==
    [id |-> id,
     assets |-> [k \in 1..Len(AssetKeys(id)) |-> Asset(id, AssetKeys(id)[k])],
     size |-> -1]

\* bytes the asset host holds for an href
RemoteSize(href) ==
    IF href.path[2] = "i2" THEN 2048
    ELSE IF href.path[3] = "B01.tif" THEN 0
    ELSE IF href.path[3] = "B02.tif" THEN 1024
    ELSE 1500

\* what the hosts answer during one item download:
\* head[k]: the HEAD of asset k carries content-length; get[k]: its GET is ok
Responses(id) ==
    [head : [1..Len(AssetKeys(id)) -> BOOLEAN],
     get  : [1..Len(AssetKeys(id)) -> BOOLEAN]]

-----------------------------------------------------------------------------
(* The file system (pathlib) *)

exists(s, p) == p \in s.dirs \/ p \in DOMAIN s.files
is_file(s, p) == p \in DOMAIN s.files

\* Path.glob('*'): the direct children of p
glob(s, p) ==
    {c \in s.dirs \cup DOMAIN s.files :
        Len(c) = Len(p) + 1 /\ SubSeq(c, 1, Len(p)) = p}

\* Path.unlink
unlink(s, p) ==
    [s EXCEPT !.files = [q \in DOMAIN s.files \ {p} |-> s.files[q]]]

\* Path.rmdir: only an empty directory can be removed
rmdir(s, p) ==
    IF p \in s.dirs /\ glob(s, p) = {}
    THEN [s EXCEPT !.dirs = s.dirs \ {p}]
    ELSE [s EXCEPT !.raised = "OSError"]

\* Path.mkdir(exist_ok=True)
mkdir(s, p) ==
    IF p \in s.dirs THEN s
    ELSE IF is_file(s, p) THEN [s EXCEPT !.raised = "FileExistsError"]
    ELSE [s EXCEPT !.dirs = s.dirs \cup {p}]

RECURSIVE rm_tree(_, _)
RECURSIVE rm_children(_, _)

\* the loop of rm_tree over the children still to be removed
rm_children(s, todo) ==
    IF todo = {} \/ s.raised # None THEN s
    ELSE LET child == CHOOSE c \in todo : TRUE
             s1 == IF is_file(s, child) THEN unlink(s, child)
                   ELSE rm_tree(s, child)
         IN  rm_children(s1, todo \ {child})

\* an rm_tree that leaves the tree in place
rm_tree_keep(s, pth) == s

\* rm_tree(pth): remove the children, files by unlink and the rest by
\* rm_tree, then the directory itself
rm_tree(s, pth) ==
    LET s1 == rm_children(s, glob(s, pth))
    IN  IF s1.raised # None THEN s1 ELSE rmdir(s1, pth)

-----------------------------------------------------------------------------
(* common.create_geometry *)

Point(c) == [type |-> "Point", coordinates |-> c]
Polygon(rings) == [type |-> "Polygon", coordinates |-> rings]
\* the None that create_geometry returns by falling off its end
NoGeometry == [type |-> "None", coordinates |-> <<>>]

\* geojson's is_valid: a point has 2 or 3 numbers; every ring of a polygon has
\* at least 4 positions and ends where it started
is_valid(g) ==
    IF g.type = "Point" THEN Len(g.coordinates) \in {2, 3}
    ELSE \A r \in 1..Len(g.coordinates) :
            LET ring == g.coordinates[r]
            IN  Len(ring) >= 4 /\ ring[1] = ring[Len(ring)]

\* closing the ring with its last point instead of its first
close_ring_last(pts) ==
    IF pts[1] # pts[Len(pts)] THEN Append(pts, pts[Len(pts)]) ELSE pts

\* pts[0] != pts[-1] -> pts.append(pts[0]); the list object is changed in place
close_ring(pts) ==
    IF pts[1] # pts[Len(pts)] THEN Append(pts, pts[1]) ELSE pts

\* pts: [kind, v] with kind "tuple", "list" or "geometry".
\* Result: the geometry returned (NoGeometry for None), the caller's pts after
\* the call, the records logged, whether the message was printed instead, and
\* the exception raised
create_geometry(pts, has_logger) ==
    IF pts.kind = "list" /\ pts.v = <<>>
    THEN [geometry |-> NoGeometry, pts |-> pts, log |-> <<>>, printed |-> FALSE,
          raised |-> "IndexError"]
    ELSE
    LET after == IF pts.kind = "list" THEN [pts EXCEPT !.v = close_ring(pts.v)]
                 ELSE pts
        geometry == IF pts.kind = "tuple" THEN Point(pts.v)
                    ELSE IF pts.kind = "geometry" THEN pts.v
                    ELSE Polygon(<<after.v>>)
        valid == is_valid(geometry)
    IN  [geometry |-> IF valid THEN geometry ELSE NoGeometry,
         pts      |-> after,
         log      |-> IF ~valid /\ has_logger THEN <<"ERROR">> ELSE <<>>,
         printed  |-> ~valid /\ ~has_logger,
         raised   |-> None]

-----------------------------------------------------------------------------
(* planetary.DownPlanet *)

\* what every call starts from: nothing logged, sent, written or raised yet
Begin(s) ==
    [s EXCEPT !.log = <<>>, !.net = <<>>, !.calls = <<>>, !.written = {},
              !.raised = None, !.pbar = [made |-> FALSE, total |-> 0, n |-> 0]]

Logged(s, level) == [s EXCEPT !.log = Append(s.log, level)]
Sent(s, request) == [s EXCEPT !.net = Append(s.net, request)]

NoTable == [is_none |-> TRUE, index |-> <<>>]
Table(index) == [is_none |-> FALSE, index |-> index]
InIndex(df, idx) == \E k \in 1..Len(df.index) : df.index[k] = idx

\* a constructor that sets the attribute whatever Client.open does
init_attr_none(s, url, opens) ==
    [Begin(s) EXCEPT !.catalog = "open", !.search_df = NoTable]

\* __init__: opens says whether Client.open(catalog) returns
DownPlanet(s, url, opens) ==
    IF opens
    THEN [Begin(s) EXCEPT !.catalog = "open", !.search_df = NoTable]
    ELSE [Logged(Logged(Begin(s), "ERROR"), "ERROR") EXCEPT
              !.catalog = "unset", !.search_df = NoTable]

\* the datetime argument of the query
date_range(start_date, end_date) ==
    IF end_date # None THEN start_date \o "/" \o end_date ELSE start_date

\* search: result is the list of item ids the catalog answers with
search(s, geometry, start_date, end_date, result) ==
    LET g  == create_geometry(geometry, TRUE)
        s0 == Begin(s)
        s1 == [s0 EXCEPT !.log = s0.log \o g.log, !.raised = g.raised]
    IN  IF s1.raised # None THEN s1
        ELSE IF s1.catalog = "unset"
        THEN [s1 EXCEPT !.raised = "AttributeError"]
        ELSE LET s2 == Sent(s1, [verb |-> "search",
                                 target |-> [collections |-> <<s2_collection>>,
                                             datetime |-> date_range(start_date, end_date),
                                             intersects |-> g.geometry],
                                 answer |-> result])
             IN  Logged([s2 EXCEPT !.search_df = Table(result)], "INFO")

\* pc.sign(href): the same path with a time-limited token as the query
sign_href(href) == [href EXCEPT !.query = "token"]

\* Path(urlparse(href).path).name: the last path segment, the query dropped
file_name(href) == href.path[Len(href.path)]

\* r.iter_content(chunk_size): the lengths of the chunks of a body of n bytes
RECURSIVE iter_content(_, _)
iter_content(n, size) ==
    IF n = 0 THEN <<>>
    ELSE LET c == IF n < size THEN n ELSE size
         IN  <<c>> \o iter_content(n - c, size)

\* the loop of download_asset over the chunks: f.write(chunk); pbar.update(1024)
RECURSIVE write_chunks(_, _, _)
write_chunks(s, file_path, chunks) ==
    IF chunks = <<>> THEN s
    ELSE LET chunk == Head(chunks)
             s1 == IF chunk > 0
                   THEN [s EXCEPT !.files[file_path] = @ + chunk,
                                  !.pbar.n = @ + pbar_step]
                   ELSE s
         IN  write_chunks(s1, file_path, Tail(chunks))

\* a download_asset that raises on a non-success status
download_asset_abort(s, asset, out_dir, ok, body) ==
    LET s1 == Sent(s, [verb |-> "GET", target |-> asset.href, answer |-> ok])
    IN  IF ~ok THEN [Logged(s1, "ERROR") EXCEPT !.raised = "HTTPError"]
        ELSE LET file_path == out_dir \o <<file_name(asset.href)>>
                 s2 == [s1 EXCEPT !.files = (file_path :> 0) @@ s1.files,
                                  !.written = @ \cup {file_path}]
             IN  write_chunks(s2, file_path, iter_content(body, chunk_size))

\* download_asset(asset, out_dir, session, pbar): ok and body are the status
\* and the length of the body of the GET's response
download_asset(s, asset, out_dir, ok, body) ==
    LET s1 == Sent(s, [verb |-> "GET", target |-> asset.href, answer |-> ok])
    IN  IF ~ok THEN Logged(s1, "ERROR")
        ELSE LET file_path == out_dir \o <<file_name(asset.href)>>
                 s2 == [s1 EXCEPT !.files = (file_path :> 0) @@ s1.files,
                                  !.written = @ \cup {file_path}]
             IN  write_chunks(s2, file_path, iter_content(body, chunk_size))

\* the content-length header of a HEAD answer: <<n>>, or <<>> when it is missing
ContentLength(href, present) == IF present THEN <<RemoteSize(href)>> ELSE <<>>

\* the loop of sign_item with a missing content-length counted as zero
RECURSIVE head_sizes_default(_, _, _, _, _)
head_sizes_default(s, assets, k, head, total_size) ==
    IF k > Len(assets) THEN [s |-> s, total_size |-> total_size]
    ELSE LET cl == ContentLength(assets[k].href, head[k])
             s1 == Sent(s, [verb |-> "HEAD", target |-> assets[k].href,
                            answer |-> cl])
         IN  head_sizes_default(s1, assets, k + 1, head,
                                total_size + (IF cl = <<>> THEN 0 ELSE cl[1]))

\* the loop of sign_item over signed_item.assets.values(), from asset k on:
\* total_size += int(r.headers.get('content-length')); int(None) is a TypeError
RECURSIVE head_sizes(_, _, _, _, _)
head_sizes(s, assets, k, head, total_size) ==
    IF k > Len(assets) THEN [s |-> s, total_size |-> total_size]
    ELSE LET cl == ContentLength(assets[k].href, head[k])
             s1 == Sent(s, [verb |-> "HEAD", target |-> assets[k].href,
                            answer |-> cl])
         IN  IF cl = <<>>
             THEN [s |-> [s1 EXCEPT !.raised = "TypeError"],
                   total_size |-> total_size]
             ELSE head_sizes(s1, assets, k + 1, head, total_size + cl[1])

\* pc.sign(item): a copy of the item with every asset href signed
sign(item) ==
    [item EXCEPT !.assets =
        [k \in DOMAIN item.assets |->
            [item.assets[k] EXCEPT !.href = sign_href(item.assets[k].href)]]]

\* sign_item(item, session): the state after it, and the item it returns
\* (meaningful only when nothing was raised)
sign_item(s, item, head) ==
    LET signed_item == sign(item)
        s1 == Sent(s, [verb |-> "sign", target |-> item.id, answer |-> "token"])
        r  == head_sizes(s1, signed_item.assets, 1, head, 0)
    IN  [s |-> r.s, item |-> [signed_item EXCEPT !.size = r.total_size]]

\* the loop of download over signed_item.assets.items(), from asset k on
RECURSIVE download_assets(_, _, _, _, _)
download_assets(s, assets, k, out_dir, get) ==
    IF k > Len(assets) \/ s.raised # None THEN s
    ELSE download_assets(
             download_asset(s, assets[k], out_dir, get[k],
                            RemoteSize(assets[k].href)),
             assets, k + 1, out_dir, get)

\* the per-item directory: out_dir / (item.id + '.PC')
item_dir(out_dir, id) == <<out_dir, id \o ".PC">>

\* the three checks download makes before it touches anything
Precondition(s, idx, out_dir) ==
    /\ ~s.search_df.is_none
    /\ InIndex(s.search_df, idx)
    /\ exists(s, <<out_dir>>)

\* a download that creates a missing out_dir instead of checking for it
download_unchecked(s, idx, out_dir, resp) ==
    IF s.search_df.is_none \/ ~InIndex(s.search_df, idx) THEN Logged(s, "WARNING")
    ELSE
    LET item == Item(idx)
        dir  == item_dir(out_dir, item.id)
        s1   == IF exists(s, dir) THEN rm_tree(s, dir) ELSE s
        s2   == IF s1.raised # None THEN s1
                ELSE [s1 EXCEPT !.dirs = @ \cup {<<out_dir>>, dir}]
        r    == sign_item(s2, item, resp.head)
    IN  IF s2.raised # None THEN s2
        ELSE IF r.s.raised # None THEN r.s
        ELSE download_assets(
                 [r.s EXCEPT !.pbar = [made |-> TRUE, total |-> r.item.size,
                                       n |-> 0]],
                 r.item.assets, 1, dir, resp.get)

\* download(idx, out_dir): resp is what the hosts answer for the item's assets
download(s, idx, out_dir, resp) ==
    IF s.search_df.is_none THEN Logged(s, "WARNING")
    ELSE IF ~InIndex(s.search_df, idx) THEN Logged(s, "WARNING")
    ELSE IF ~exists(s, <<out_dir>>) THEN Logged(s, "WARNING")
    ELSE
    LET item == Item(idx)
        dir  == item_dir(out_dir, item.id)
        s0   == [s EXCEPT !.pbar = [made |-> FALSE, total |-> 0, n |-> 0]]
        s1   == IF exists(s0, dir) THEN rm_tree(s0, dir) ELSE s0
        s2   == IF s1.raised # None THEN s1 ELSE mkdir(s1, dir)
        r    == sign_item(s2, item, resp.head)
    IN  IF s2.raised # None THEN s2
        ELSE IF r.s.raised # None THEN r.s
        ELSE download_assets(
                 [r.s EXCEPT !.pbar = [made |-> TRUE, total |-> r.item.size,
                                       n |-> 0]],
                 r.item.assets, 1, dir, resp.get)

\* the loop of download_all leaving out the last row
RECURSIVE download_rows_short(_, _, _, _)
download_rows_short(s, k, out_dir, resps) ==
    IF k >= Len(s.search_df.index) \/ s.raised # None THEN s
    ELSE LET idx == s.search_df.index[k]
             s1  == [s EXCEPT !.calls = Append(@, idx)]
         IN  download_rows_short(download(s1, idx, out_dir, resps[idx]),
                                 k + 1, out_dir, resps)

\* the loop of download_all over search_df.index, from row k on
RECURSIVE download_rows(_, _, _, _)
download_rows(s, k, out_dir, resps) ==
    IF k > Len(s.search_df.index) \/ s.raised # None THEN s
    ELSE LET idx == s.search_df.index[k]
             s1  == [s EXCEPT !.calls = Append(@, idx)]
         IN  download_rows(download(s1, idx, out_dir, resps[idx]),
                           k + 1, out_dir, resps)

\* download_all(out_dir): self.search_df.index on None is an AttributeError
download_all(s, out_dir, resps) ==
    IF s.search_df.is_none THEN [s EXCEPT !.raised = "AttributeError"]
    ELSE download_rows(s, 1, out_dir, resps)

-----------------------------------------------------------------------------
(* The state machine of the client *)

\* the instance and its surroundings as one record, and back
S == [catalog |-> catalog, search_df |-> search_df, dirs |-> dirs,
      files |-> files, log |-> log, net |-> net, calls |-> calls,
      written |-> written, pbar |-> pbar, raised |-> raised]

Becomes(t) ==
    /\ catalog' = t.catalog
    /\ search_df' = t.search_df
    /\ dirs' = t.dirs
    /\ files' = t.files
    /\ log' = t.log
    /\ net' = t.net
    /\ calls' = t.calls
    /\ written' = t.written
    /\ pbar' = t.pbar
    /\ raised' = t.raised

Called(op, idx, out_dir, path) ==
    [op |-> op, idx |-> idx, out_dir |-> out_dir, path |-> path]

\* output directories a caller passes: "out" exists, "nodir" does not
OutDirs == {"out", "nodir"}

\* the file system before the first call: only the output directory, or also
\* what an earlier run left in the directories of both items
FreshFS == [dirs |-> {<<"out">>}, files |-> <<>>]
StaleFS ==
    [dirs  |-> {<<"out">>, <<"out", "i1.PC">>, <<"out", "i1.PC", "tmp">>,
                <<"out", "i1.PC", "tmp", "part">>, <<"out", "i2.PC">>},
     files |-> (<<"out", "i1.PC", "B02.tif">> :> 7)
               @@ (<<"out", "i1.PC", "old.tif">> :> 9)
               @@ (<<"out", "i1.PC", "tmp", "x.bin">> :> 1)
               @@ (<<"out", "i1.PC", "tmp", "part", "y.bin">> :> 2)
               @@ (<<"out", "i2.PC", "B01.tif">> :> 3)]

Blank(fs) ==
    [catalog |-> "unset", search_df |-> NoTable, dirs |-> fs.dirs,
     files |-> fs.files, log |-> <<>>, net |-> <<>>, calls |-> <<>>,
     written |-> {}, pbar |-> [made |-> FALSE, total |-> 0, n |-> 0],
     raised |-> None]

\* catalog URLs a caller passes, and whether Client.open can answer for them
Openings == {<<catalog_url, TRUE>>, <<catalog_url, FALSE>>, <<"xxxx", FALSE>>}

\* geometries a caller passes to search
Geometries ==
    {[kind |-> "tuple", v |-> <<10, 45>>],
     [kind |-> "list", v |-> <<<<0, 0>>, <<1, 0>>, <<0, 1>>>>],
     [kind |-> "list", v |-> <<<<0, 0>>, <<1, 0>>>>]}

\* what the catalog answers to a search: item ids, each at most once
Results == {<<>>, <<"i1">>, <<"i2">>, <<"i1", "i2">>, <<"i2", "i1">>}

\* which way a download(idx, out_dir) goes from state s
DownloadPath(s, idx, out_dir) ==
    IF s.search_df.is_none THEN "no_search"
    ELSE IF ~InIndex(s.search_df, idx) THEN "bad_idx"
    ELSE IF ~exists(s, <<out_dir>>) THEN "no_dir"
    ELSE IF exists(s, item_dir(out_dir, idx)) THEN "replaced"
    ELSE "fresh"

Init ==
    \E o \in Openings, fs \in {FreshFS, StaleFS} :
        LET t == DownPlanet(Blank(fs), o[1], o[2])
        IN  /\ catalog = t.catalog /\ search_df = t.search_df
            /\ dirs = t.dirs /\ files = t.files /\ log = t.log /\ net = t.net
            /\ calls = t.calls /\ written = t.written /\ pbar = t.pbar
            /\ raised = t.raised
            /\ call = Called("init", None, None, IF o[2] THEN "opened" ELSE "failed")
            /\ arg = None /\ ret = None

\* downloader = DownPlanet(catalog=url): a new instance over the same disk
Construct ==
    \E o \in Openings :
        /\ Becomes(DownPlanet(S, o[1], o[2]))
        /\ call' = Called("init", None, None, IF o[2] THEN "opened" ELSE "failed")
        /\ UNCHANGED <<arg, ret>>

Search ==
    \E geometry \in Geometries, end_date \in {None, "2021-07"}, result \in Results :
        /\ Becomes(search(S, geometry, "2021-06", end_date, result))
        /\ call' = Called("search", None, None, geometry.kind)
        /\ UNCHANGED <<arg, ret>>

Download ==
    \E idx \in Ids \cup {UnknownId}, out_dir \in OutDirs :
        \E resp \in Responses(idx) :
            /\ Becomes(download(Begin(S), idx, out_dir, resp))
            /\ call' = Called("download", idx, out_dir, DownloadPath(S, idx, out_dir))
            /\ UNCHANGED <<arg, ret>>

DownloadAll ==
    \E out_dir \in OutDirs, r1 \in Responses("i1"), r2 \in Responses("i2") :
        /\ Becomes(download_all(Begin(S), out_dir,
                                [i \in Ids |-> IF i = "i1" THEN r1 ELSE r2]))
        /\ call' = Called("download_all", None, out_dir,
                          IF search_df.is_none THEN "no_search" ELSE "searched")
        /\ UNCHANGED <<arg, ret>>

Next == Construct \/ Search \/ Download \/ DownloadAll

Spec == Init /\ [][Next]_vars

-----------------------------------------------------------------------------
(* create_geometry and download_asset on their own, over all their inputs *)

Coords == {<<0, 0>>, <<1, 0>>, <<0, 1>>}

\* every coordinate list of at most MaxLen pairs, three tuples, two geometries
GeometryInputs ==
    {[kind |-> "list", v |-> l] :
        l \in UNION {[1..n -> Coords] : n \in 0..MaxLen}}
    \cup {[kind |-> "tuple", v |-> c] : c \in {<<10>>, <<10, 45>>, <<10, 45, 0>>}}
    \cup {[kind |-> "geometry", v |-> g] :
            g \in {Point(<<10, 45>>),
                   Polygon(<<<<<<0, 0>>, <<1, 0>>, <<0, 1>>>>>>)}}

InitGeometry ==
    /\ arg \in GeometryInputs
    /\ ret = [geometry |-> NoGeometry, pts |-> arg, log |-> <<>>,
              printed |-> FALSE, raised |-> None]
    /\ call = Called("input", None, None, None)
    /\ catalog = "unset" /\ search_df = NoTable
    /\ dirs = FreshFS.dirs /\ files = FreshFS.files
    /\ log = <<>> /\ net = <<>> /\ calls = <<>> /\ written = {}
    /\ pbar = [made |-> FALSE, total |-> 0, n |-> 0] /\ raised = None

CreateGeometry ==
    /\ call.op = "input"
    /\ \E has_logger \in BOOLEAN : ret' = create_geometry(arg, has_logger)
    /\ call' = Called("create_geometry", None, None, arg.kind)
    /\ UNCHANGED <<catalog, search_df, dirs, files, log, net, calls, written,
                   pbar, raised, arg>>

NextGeometry == CreateGeometry

SpecGeometry == InitGeometry /\ [][NextGeometry]_vars

\* the asset streamed in the download_asset specification, and where to
AssetDir == item_dir("out", "i1")
StreamedAsset == sign(Item("i1")).assets[2]
StreamedFile == AssetDir \o <<file_name(StreamedAsset.href)>>

\* a GET answer: its status and a body of any length up to MaxBody
InitAsset ==
    /\ arg \in [ok : BOOLEAN, body : 0..MaxBody]
    /\ ret = None
    /\ call = Called("input", None, None, None)
    /\ catalog = "open" /\ search_df = Table(<<"i1">>)
    /\ dirs = {<<"out">>, AssetDir} /\ files = <<>>
    /\ log = <<>> /\ net = <<>> /\ calls = <<>> /\ written = {}
    /\ pbar = [made |-> TRUE, total |-> MaxBody, n |-> 0] /\ raised = None

DownloadAsset ==
    /\ call.op = "input"
    /\ Becomes(download_asset(S, StreamedAsset, AssetDir, arg.ok, arg.body))
    /\ call' = Called("download_asset", "i1", "out", IF arg.ok THEN "ok" ELSE "error")
    /\ UNCHANGED <<arg, ret>>

NextAsset == DownloadAsset

SpecAsset == InitAsset /\ [][NextAsset]_vars

-----------------------------------------------------------------------------
(* What the claims read off a state *)

Under(p, dir) == Len(p) > Len(dir) /\ SubSeq(p, 1, Len(dir)) = dir
FilesUnder(fl, dir) == {p \in DOMAIN fl : Under(p, dir)}
DirsUnder(ds, dir) == {p \in ds : Under(p, dir)}

\* positions in net of the requests with this verb for assets of item id
Requests(verb, id) ==
    {k \in 1..Len(net) : net[k].verb = verb /\ net[k].target.path[2] = id}
Count(seq, x) == Cardinality({k \in 1..Len(seq) : seq[k] = x})
IsPrefix(a, b) == Len(a) <= Len(b) /\ SubSeq(b, 1, Len(a)) = a

-----------------------------------------------------------------------------
(* Claims *)

\* C1: a download(idx, out_dir) whose precondition fails (no search yet, idx
\* not in the last result, or out_dir missing) returns without raising, logs
\* one warning, sends no request and leaves the disk and search_df as they were.
C1_FailedPreconditionChangesNothing ==
    [][(call'.op = "download" /\ ~Precondition(S, call'.idx, call'.out_dir))
        => /\ raised' = None
           /\ log' = <<"WARNING">>
           /\ net' = <<>>
           /\ dirs' = dirs /\ files' = files /\ written' = {}
           /\ search_df' = search_df]_vars

C1_Witness ==
    /\ call.op = "download" /\ call.path = "no_dir"
    /\ call.idx \in Ids /\ log = <<"WARNING">>

\* C2: a download that passes its preconditions and finds the item directory
\* already there ends with that directory present, holding no nested
\* directory and no file but those this call wrote.
C2_ExistingItemDirIsReplaced ==
    [][(/\ call'.op = "download"
        /\ Precondition(S, call'.idx, call'.out_dir)
        /\ exists(S, item_dir(call'.out_dir, call'.idx)))
        => LET dir == item_dir(call'.out_dir, call'.idx)
           IN  /\ dir \in dirs'
               /\ DirsUnder(dirs', dir) = {}
               /\ FilesUnder(files', dir) \subseteq written']_vars

C2_Witness ==
    /\ call.op = "download" /\ call.path = "replaced" /\ call.idx = "i1"
    /\ raised = None
    /\ FilesUnder(files, item_dir("out", "i1")) = {<<"out", "i1.PC", "B01.tif">>}

\* C3: in a download whose size probe succeeded there is one GET per asset of
\* the item, one logged error per GET that answered a non-success status, and
\* the item directory holds exactly the files of the assets whose GET succeeded.
C3_FailedAssetIsSkipped ==
    (call.op = "download" /\ call.path \in {"fresh", "replaced"} /\ pbar.made)
    => LET id  == call.idx
           dir == item_dir(call.out_dir, id)
           as  == sign(Item(id)).assets
           gets(k) == {n \in Requests("GET", id) : net[n].target = as[k].href}
       IN  /\ raised = None
           /\ \A k \in DOMAIN as : Cardinality(gets(k)) = 1
           /\ Cardinality(Requests("GET", id)) = Len(as)
           /\ Count(log, "ERROR")
                = Cardinality({n \in Requests("GET", id) : ~net[n].answer})
           /\ FilesUnder(files, dir)
                = {dir \o <<file_name(as[k].href)>> :
                     k \in {j \in DOMAIN as : \A n \in gets(j) : net[n].answer}}

C3_Witness ==
    /\ call.op = "download" /\ call.idx = "i1" /\ pbar.made
    /\ Count(log, "ERROR") = 1
    /\ FilesUnder(files, item_dir("out", "i1"))
         = {<<"out", "i1.PC", "B01.tif">>, <<"out", "i1.PC", "B03.tif">>}

C5_ConstructorNeverRaises ==
    (call.op = "init")
    => /\ raised = None
       /\ search_df.is_none
       /\ call.path = "failed" => (catalog = "unset" /\ Count(log, "ERROR") > 0)
       /\ call.path = "opened" => catalog = "open"

C5_Witness ==
    call.op = "init" /\ call.path = "failed" /\ catalog = "unset" /\ log # <<>>

\* C6: search never sends the catalog a query whose geometry is absent.
C6_NoQueryWithoutGeometry ==
    \A k \in 1..Len(net) :
        net[k].verb = "search" => net[k].target.intersects.type # "None"

\* C7: when a HEAD answers without content-length the call ends there with the
\* exception raised: no progress bar (no signed item with a size) and no GET
\* for any asset of that item.
C7_MissingLengthIsFatal ==
    \A k \in 1..Len(net) :
        (net[k].verb = "HEAD" /\ net[k].answer = <<>>)
        => /\ raised = "TypeError"
           /\ k = Len(net)
           /\ ~pbar.made
           /\ Requests("GET", net[k].target.path[2]) = {}

C7_Witness ==
    /\ call.op = "download_all" /\ raised = "TypeError"
    /\ Len(calls) = 2 /\ written # {}
    /\ net[Len(net)].verb = "HEAD"

\* C8: after an asset is streamed to disk the progress added for it equals the
\* number of bytes written to its file.
C8_ProgressEqualsBytesWritten ==
    (call.op = "download_asset" /\ call.path = "ok")
    => pbar.n = files[StreamedFile]

\* C9: for a non-empty coordinate list whose ends differ the ring built is the
\* list with its first point appended (closed, the input as its prefix, one
\* longer); a list that is already closed is used as it is.
C9_RingIsClosed ==
    (call.op = "create_geometry" /\ arg.kind = "list" /\ arg.v # <<>>)
    => LET given == arg.v
           ring  == ret.pts.v
       IN  /\ ret.raised = None
           /\ ret.geometry.type = "Polygon" => ret.geometry.coordinates = <<ring>>
           /\ given[1] # given[Len(given)]
                => /\ ring[1] = ring[Len(ring)]
                   /\ Len(ring) = Len(given) + 1
                   /\ SubSeq(ring, 1, Len(given)) = given
           /\ given[1] = given[Len(given)] => ring = given

C9_Witness ==
    /\ call.op = "create_geometry" /\ arg.kind = "list"
    /\ arg.v = <<<<0, 0>>, <<1, 0>>, <<0, 1>>>>
    /\ ret.geometry = Polygon(<<<<<<0, 0>>, <<1, 0>>, <<0, 1>>, <<0, 0>>>>>>)

\* C10: a download_all before any search logs a diagnostic and returns without
\* raising and without creating a file or directory.
C10_BulkBeforeSearchIsUsageError ==
    [][(call'.op = "download_all" /\ search_df.is_none)
        => /\ raised' = None
           /\ log' # <<>>
           /\ dirs' = dirs /\ files' = files]_vars

====
